---- MODULE Spec2Model ----
(***************************************************************************)
(* Model of the deadlock detection engine (src/src/detector.py), of the   *)
(* report consumer (src/src/recommender.py) and of the source front-end    *)
(* (src/src/analyzer.py).                                                  *)
(*                                                                         *)
(* A detector owns one ResourceAllocationGraph (rag) and an operation      *)
(* list.  analyze() runs build_rag (node registration, then a replay of    *)
(* the operations sorted by line), level 1 (cycle search on the graph),    *)
(* level 2 (pairwise comparison of the first two acquires of each thread)  *)
(* and assembles the report.                                               *)
(*                                                                         *)
(* Python sets have no specified enumeration order.  A set that the code   *)
(* enumerates is modelled as a duplicate-free sequence: its elements in    *)
(* the order the set object enumerates them.  Adding an element places it  *)
(* at an arbitrary position; a set that is not modified keeps its order.   *)
(* Python dicts enumerate in insertion order, which is modelled exactly.   *)
(***************************************************************************)
EXTENDS Integers, Sequences, FiniteSets, TLC

VARIABLES
    operations,       \* detector.operations: the loaded operation list
    rag,              \* detector.rag: [keys, node_types, graph, edges]
    owners,           \* build_rag's local owner table: resource -> set of threads
    pending,          \* build_rag's iterator over sorted(operations): what is left
    pc,               \* position inside analyze(): "idle" or "replay", or "raised"
                      \* once an exception has left analyze()
    cycles,           \* level 1's local `cycles`, as last returned by detect_cycles
    returned,         \* the reports returned by analyze() so far, oldest first
    recommendations,  \* the value returned by DeadlockRecommender.recommend
    loads,            \* number of load_analysis calls on the current detector
    detectors,        \* number of detectors constructed so far
    source,           \* the nodes of the parsed file, in the order ast.walk yields them
    analyzer,         \* the CodeAnalyzer: [threads, resources, operations, current_function]
    walk_index,       \* nodes the loop of _analyze_tree has finished with
    analysis_result,  \* what CodeAnalyzer.analyze_file returned, if it has
    knowledge_base,   \* the KnowledgeBase: [patterns, solutions, history]
    db_file,          \* the contents of the file at db_path, as last saved
    kb_call,          \* the latest call made on the KnowledgeBase, with its arguments
    kb_result         \* the values the calls on the KnowledgeBase returned, oldest first

\* the variables of the front-end
frontend == <<source, analyzer, walk_index, analysis_result>>

\* the variables of the knowledge base
knowledge == <<knowledge_base, db_file, kb_call, kb_result>>

vars == <<operations, rag, owners, pending, pc, cycles, returned,
          recommendations, loads, detectors, source, analyzer, walk_index, analysis_result,
          knowledge_base, db_file, kb_call, kb_result>>

(***************************************************************************)
(* Bounds of the model.                                                    *)
(***************************************************************************)
MaxOps == 2          \* longest operation list of the general input family
MaxLine == 2         \* largest line number of the general input family
ClassicMaxLine == 4  \* largest acquire line of the two-thread inversion family
MaxCalls == 2        \* analyze() calls per detector
MaxReloadOps == 1    \* longest list of the reload input family
MaxIngestOps == 2    \* longest list of the ingestion input family
MaxPairOps == 4      \* longest list of the acquire-only input family
MaxNodes == 3        \* nodes of a parsed file below its Module node
MaxKbCalls == 3      \* calls made on a KnowledgeBase

(***************************************************************************)
(* Names.  Rank is the position of a name in Python's string order         *)
(* ("r1" < "r2" < "t1" < "t2"), which min() and sorted() compare by.       *)
(***************************************************************************)
ThreadNames == {"t1", "t2"}
ResourceNames == {"r1", "r2"}
\* the general family also uses one string both as a thread and as a resource
ClashResourceNames == {"r1", "t1"}
Names == ThreadNames \cup ResourceNames \cup ClashResourceNames

Rank(n) == CASE n = "r1" -> 1 [] n = "r2" -> 2 [] n = "t1" -> 3 [] n = "t2" -> 4

\* 'hold' < 'request' in Python's string order
KindRank(k) == IF k = "hold" THEN 1 ELSE 2

(***************************************************************************)
(* Sequence helpers.                                                       *)
(***************************************************************************)
Range(s) == {s[i] : i \in 1..Len(s)}

\* the enumerations of a finite set: its duplicate-free orderings
Perms(S) ==
    {s \in [1..Cardinality(S) -> S] : \A i, j \in 1..Cardinality(S) : s[i] = s[j] => i = j}

\* s with x placed before position i
InsertAt(s, i, x) == SubSeq(s, 1, i - 1) \o <<x>> \o SubSeq(s, i, Len(s))

\* list.index(x): the first position of x in s
IndexOf(s, x) == CHOOSE i \in 1..Len(s) : s[i] = x /\ \A j \in 1..(i - 1) : s[j] # x

\* tuple comparison of two name sequences, element-wise by Rank
RECURSIVE LexLess(_, _)
LexLess(a, b) ==
    IF Len(b) = 0 THEN FALSE
    ELSE IF Len(a) = 0 THEN TRUE
    ELSE IF Rank(a[1]) # Rank(b[1]) THEN Rank(a[1]) < Rank(b[1])
    ELSE LexLess(Tail(a), Tail(b))

(***************************************************************************)
(* Operation records and the input families.                               *)
(***************************************************************************)
Actions == {"acquire", "release"}

Op(t, r, a, l) == [thread |-> t, resource |-> r, action |-> a, line |-> l]

OpsOver(T, R, L) == {Op(t, r, a, l) : t \in T, r \in R, a \in Actions, l \in L}

ListsOver(O, n) == UNION {[1..k -> O] : k \in 0..n}

\* every list of at most MaxOps operations over two threads, one ordinary lock
\* and one lock whose name is also a thread's name
ShortLists == ListsOver(OpsOver(ThreadNames, ClashResourceNames, 1..MaxLine), MaxOps)

(***************************************************************************)
(* ResourceAllocationGraph.                                                *)
(***************************************************************************)
EmptyRag == [keys |-> <<>>, node_types |-> <<>>, graph |-> <<>>, edges |-> {}]

add_thread(g, thread_name) ==
    [g EXCEPT !.keys = IF thread_name \in Range(@) THEN @ ELSE Append(@, thread_name),
              !.node_types = (thread_name :> "thread") @@ @,
              !.graph = IF thread_name \in DOMAIN @ THEN @ ELSE @ @@ (thread_name :> <<>>)]

add_resource(g, resource_name) ==
    [g EXCEPT !.keys = IF resource_name \in Range(@) THEN @ ELSE Append(@, resource_name),
              !.node_types = (resource_name :> "resource") @@ @,
              !.graph = IF resource_name \in DOMAIN @ THEN @ ELSE @ @@ (resource_name :> <<>>)]

\* the places at which node n's neighbour set may enumerate a new element
Positions(g, n) == 1..(Len(g.graph[n]) + 1)

add_hold_edge(g, thread, resource, at) ==
    IF resource \notin Range(g.graph[thread])
    THEN [g EXCEPT !.graph[thread] = InsertAt(@, at, resource),
                   !.edges = @ \cup {<<thread, resource, "hold">>}]
    ELSE g

add_request_edge(g, resource, thread, at) ==
    IF thread \notin Range(g.graph[resource])
    THEN [g EXCEPT !.graph[resource] = InsertAt(@, at, thread),
                   !.edges = @ \cup {<<resource, thread, "request">>}]
    ELSE g

(***************************************************************************)
(* build_rag.                                                              *)
(***************************************************************************)
RECURSIVE FoldNodes(_, _, _)
\* "for n in names: add(n)" with add one of add_thread, add_resource
FoldNodes(g, names, asThread) ==
    IF names = <<>> THEN g
    ELSE FoldNodes(IF asThread THEN add_thread(g, Head(names))
                   ELSE add_resource(g, Head(names)),
                   Tail(names), asThread)

\* the names build_rag registers as threads and as resources
ThreadsOf(ops) == {ops[i].thread : i \in 1..Len(ops)}
\* faulty variant of ResourcesOf: only acquired resources are collected
AcquiredResourcesOf(ops) ==
    {ops[i].resource : i \in {k \in 1..Len(ops) : ops[k].action = "acquire"}}

ResourcesOf(ops) == {ops[i].resource : i \in 1..Len(ops)}

\* the graph after the two registration loops, `to` and `ro` being the orders
\* in which the sets `threads` and `resources` enumerate
RegisterNodes(g, to, ro) == FoldNodes(FoldNodes(g, to, TRUE), ro, FALSE)

\* faulty variant of FreshOwners: the owner table of the previous call is kept
StaleOwners == owners

\* owners = defaultdict(set), as build_rag creates it on every call
FreshOwners == [r \in Names |-> {}]

\* faulty variant of OtherOwners: the acquiring thread is not taken out
AllOwners(ow, r, t) == ow[r]

\* owners.get(r, set()) - {t}
OtherOwners(ow, r, t) == ow[r] \ {t}

\* faulty variant of ReleaseOwners: any release frees the resource
ClearOwners(ow, t, r) == [ow EXCEPT ![r] = {}]

\* the owner table after "elif a == 'release' and t in owners.get(r, set())"
ReleaseOwners(ow, t, r) == IF t \in ow[r] THEN [ow EXCEPT ![r] = @ \ {t}] ELSE ow

\* faulty variant of SortByLine: the operations stay in their input order
InputOrder(ops) == ops

RECURSIVE SortByLine(_)
\* sorted(operations, key=line): ascending, equal lines keep their input order
SortByLine(ops) ==
    IF ops = <<>> THEN <<>>
    ELSE LET n == Len(ops)
             last == ops[n]
             front == SortByLine(SubSeq(ops, 1, n - 1))
             k == Cardinality({i \in 1..Len(front) : front[i].line <= last.line})
         IN InsertAt(front, k + 1, last)

\* the outcomes of one iteration of the replay loop on operation op
ReplayOp(g, ow, op) ==
    LET t == op.thread
        r == op.resource
    IN IF op.action = "acquire"
       THEN LET other_owners == OtherOwners(ow, r, t)
                requested == IF other_owners # {}
                             THEN {add_request_edge(g, r, t, i) : i \in Positions(g, r)}
                             ELSE {g}
            IN UNION {{[rag |-> add_hold_edge(g1, t, r, j),
                        owners |-> [ow EXCEPT ![r] = @ \cup {t}]] : j \in Positions(g1, t)}
                      : g1 \in requested}
       ELSE IF op.action = "release"
       THEN {[rag |-> g, owners |-> ReleaseOwners(ow, t, r)]}
       ELSE {[rag |-> g, owners |-> ow]}

(***************************************************************************)
(* detect_cycles.                                                          *)
(***************************************************************************)
\* self.graph.get(node, [])
Neighbours(g, node) == IF node \in DOMAIN g.graph THEN g.graph[node] ELSE <<>>

RECURSIVE dfs(_, _, _), dfsEach(_, _, _)
\* the nested function dfs; st holds visited, rec_stack and cycles
dfs(g, node, st) ==
    IF node \in Range(st.rec_stack)
    THEN LET idx == IndexOf(st.rec_stack, node)
             cycle == SubSeq(st.rec_stack, idx, Len(st.rec_stack)) \o <<node>>
         IN [st EXCEPT !.cycles = Append(@, cycle)]
    ELSE IF node \in st.visited
    THEN st
    ELSE LET entered == [st EXCEPT !.visited = @ \cup {node},
                                   !.rec_stack = Append(@, node)]
             walked == dfsEach(g, Neighbours(g, node), entered)
         IN [walked EXCEPT !.rec_stack = SubSeq(@, 1, Len(@) - 1)]

\* "for nbr in ...: dfs(nbr)"
dfsEach(g, nbrs, st) ==
    IF nbrs = <<>> THEN st
    ELSE dfsEach(g, Tail(nbrs), dfs(g, Head(nbrs), st))

RECURSIVE dfsRoots(_, _, _)
\* "for node in list(self.graph.keys()): if node not in visited: dfs(node)"
dfsRoots(g, nodes, st) ==
    IF nodes = <<>> THEN st
    ELSE dfsRoots(g, Tail(nodes),
                  IF Head(nodes) \notin st.visited THEN dfs(g, Head(nodes), st) ELSE st)

\* the list `cycles` before normalisation
RawCycles(g) ==
    dfsRoots(g, g.keys, [visited |-> {}, rec_stack |-> <<>>, cycles |-> <<>>]).cycles

\* cyclic[i:] + cyclic[:i] for i in range(len(cyclic))
Rotations(cyclic) ==
    {SubSeq(cyclic, i, Len(cyclic)) \o SubSeq(cyclic, 1, i - 1) : i \in 1..Len(cyclic)}

\* faulty variant of min_rot: the cycle is kept as the search found it
first_rot(cyclic) == cyclic

\* min(...) over the rotations, compared as tuples
min_rot(cyclic) ==
    CHOOSE m \in Rotations(cyclic) : \A o \in Rotations(cyclic) : o = m \/ LexLess(m, o)

\* faulty variant of Cyclic: the repeated closing node stays in the cycle
Closed(c) == c

\* c[:-1] if len(c) > 1 and c[0] == c[-1] else c
Cyclic(c) == IF Len(c) > 1 /\ c[1] = c[Len(c)] THEN SubSeq(c, 1, Len(c) - 1) ELSE c

RECURSIVE Normalize(_, _, _)
\* the normalisation loop; seen is seen_signatures
Normalize(raw, normalized, seen) ==
    IF raw = <<>> THEN normalized
    ELSE LET cyclic == Cyclic(Head(raw))
         IN IF cyclic = <<>>
            THEN Normalize(Tail(raw), normalized, seen)
            ELSE LET m == min_rot(cyclic)
                 IN IF m \notin seen
                    THEN Normalize(Tail(raw), Append(normalized, m), seen \cup {m})
                    ELSE Normalize(Tail(raw), normalized, seen)

detect_cycles(g) == Normalize(RawCycles(g), <<>>, {})

(***************************************************************************)
(* The two analysis levels.                                                *)
(***************************************************************************)
Level1Probability == 85   \* probability=0.85, in hundredths
Level2Probability == 65   \* probability=0.65, in hundredths

RECURSIVE SortedInts(_)
\* sorted(set(...)) of integers
SortedInts(S) ==
    IF S = {} THEN <<>>
    ELSE LET m == CHOOSE x \in S : \A y \in S : x <= y
         IN <<m>> \o SortedInts(S \ {m})

\* self.rag.node_types.get(n) == kind
HasKind(g, n, kind) == n \in DOMAIN g.node_types /\ g.node_types[n] = kind

\* the DeadlockReport level 1 builds for cycle c
Level1Report(g, ops, c) ==
    LET threads == SelectSeq(c, LAMBDA n : HasKind(g, n, "thread"))
        resources == SelectSeq(c, LAMBDA n : HasKind(g, n, "resource"))
        lines == {ops[i].line : i \in {k \in 1..Len(ops) :
                                          /\ ops[k].thread \in Range(threads)
                                          /\ ops[k].resource \in Range(resources)
                                          /\ ops[k].action = "acquire"}}
    IN [threads_involved |-> threads,
        resources_involved |-> resources,
        cycle_path |-> c,
        probability |-> Level1Probability,
        severity |-> "HIGH",
        analysis_level |-> 1,
        line_numbers |-> SortedInts(lines)]

\* faulty variant of Level1Keeps: every cycle is reported
KeepsEveryCycle(g, c) == TRUE

\* len(threads) >= 2 and len(resources) >= 1
Level1Keeps(g, c) ==
    /\ Len(SelectSeq(c, LAMBDA n : HasKind(g, n, "thread"))) >= 2
    /\ Len(SelectSeq(c, LAMBDA n : HasKind(g, n, "resource"))) >= 1

RECURSIVE Level1Reports(_, _, _)
\* the loop of level1_static_analysis over the cycles cs
Level1Reports(g, ops, cs) ==
    IF cs = <<>> THEN <<>>
    ELSE (IF Level1Keeps(g, Head(cs)) THEN <<Level1Report(g, ops, Head(cs))>> ELSE <<>>)
         \o Level1Reports(g, ops, Tail(cs))

\* faulty variant of SortedAcquires: the test on the action is missing
SortedOperations(ops) == SortByLine(ops)

\* the acquires in line order, as the first loop of level 2 visits them
SortedAcquires(ops) == SelectSeq(SortByLine(ops), LAMBDA o : o.action = "acquire")

RECURSIVE FirstSeen(_, _)
\* list(thread_ops.keys()): the threads in order of their first acquire
FirstSeen(acqs, seen) ==
    IF acqs = <<>> THEN seen
    ELSE FirstSeen(Tail(acqs),
                   IF Head(acqs).thread \in Range(seen) THEN seen
                   ELSE Append(seen, Head(acqs).thread))

\* thread_ops[t]
ThreadOps(ops, t) == SelectSeq(SortedAcquires(ops), LAMBDA o : o.thread = t)

\* faulty variant of Level2Pair: the test r1 == list(reversed(r2)) is missing
Level2PairSameSet(ops, t1, t2) ==
    LET ops1 == ThreadOps(ops, t1)
        ops2 == ThreadOps(ops, t2)
    IN IF Len(ops1) >= 2 /\ Len(ops2) >= 2
       THEN LET r1 == <<ops1[1].resource, ops1[2].resource>>
                r2 == <<ops2[1].resource, ops2[2].resource>>
            IN IF Range(r1) = Range(r2)
               THEN <<[threads_involved |-> <<t1, t2>>,
                       resources_involved |-> r1,
                       cycle_path |-> <<t1, r1[1], t2, r1[2], t1>>,
                       probability |-> Level2Probability,
                       severity |-> "MEDIUM",
                       analysis_level |-> 2,
                       line_numbers |-> <<ops1[1].line, ops2[1].line>>]>>
               ELSE <<>>
       ELSE <<>>

\* the reports level 2 appends for the pair (t1, t2): one or none
Level2Pair(ops, t1, t2) ==
    LET ops1 == ThreadOps(ops, t1)
        ops2 == ThreadOps(ops, t2)
    IN IF Len(ops1) >= 2 /\ Len(ops2) >= 2
       THEN LET r1 == <<ops1[1].resource, ops1[2].resource>>
                r2 == <<ops2[1].resource, ops2[2].resource>>
            IN IF Range(r1) = Range(r2) /\ r1 # r2 /\ r1 = <<r2[2], r2[1]>>
               THEN <<[threads_involved |-> <<t1, t2>>,
                       resources_involved |-> r1,
                       cycle_path |-> <<t1, r1[1], t2, r1[2], t1>>,
                       probability |-> Level2Probability,
                       severity |-> "MEDIUM",
                       analysis_level |-> 2,
                       line_numbers |-> <<ops1[1].line, ops2[1].line>>]>>
               ELSE <<>>
       ELSE <<>>

RECURSIVE Level2From(_, _, _, _)
\* the two nested loops of level 2, at outer index i and inner index j
Level2From(ops, threads, i, j) ==
    IF i > Len(threads) THEN <<>>
    ELSE IF j > Len(threads) THEN Level2From(ops, threads, i + 1, i + 2)
    ELSE Level2Pair(ops, threads[i], threads[j]) \o Level2From(ops, threads, i, j + 1)

level2_control_flow_analysis(ops) ==
    Level2From(ops, FirstSeen(SortedAcquires(ops), <<>>), 1, 2)

level1_static_analysis(g, ops) == Level1Reports(g, ops, detect_cycles(g))

(***************************************************************************)
(* visualize_ascii and the report.                                         *)
(***************************************************************************)
RECURSIVE SortedNames(_)
\* sorted(...) of a collection of names
SortedNames(S) ==
    IF S = {} THEN <<>>
    ELSE LET m == CHOOSE x \in S : \A y \in S : Rank(x) <= Rank(y)
         IN <<m>> \o SortedNames(S \ {m})

\* (a, b, etype) < (c, d, etype2) as Python compares tuples of strings
EdgeLess(e, f) ==
    \/ Rank(e[1]) < Rank(f[1])
    \/ e[1] = f[1] /\ Rank(e[2]) < Rank(f[2])
    \/ e[1] = f[1] /\ e[2] = f[2] /\ KindRank(e[3]) < KindRank(f[3])

RECURSIVE SortedEdges(_)
\* sorted(self.edges)
SortedEdges(E) ==
    IF E = {} THEN <<>>
    ELSE LET m == CHOOSE e \in E : \A f \in E : f = e \/ EdgeLess(e, f)
         IN <<m>> \o SortedEdges(E \ {m})

RECURSIVE NodeLines(_, _, _)
\* one text line <<node, sorted neighbours>> per node of the kind, in the
\* enumeration order of node_types
NodeLines(g, nodes, kind) ==
    IF nodes = <<>> THEN <<>>
    ELSE (IF g.node_types[Head(nodes)] = kind
          THEN <<<<Head(nodes), SortedNames(Range(Neighbours(g, Head(nodes))))>>>>
          ELSE <<>>)
         \o NodeLines(g, Tail(nodes), kind)

\* the text: the THREADS block, the RESOURCES block and the EDGES block
visualize_ascii(g) ==
    [threads |-> NodeLines(g, g.keys, "thread"),
     resources |-> NodeLines(g, g.keys, "resource"),
     edges |-> SortedEdges(g.edges)]

\* faulty variant of CountSeverity: every finding is counted in every bucket
CountEvery(reports, sev) == Len(reports)

\* sum(r.severity == sev for r in reports)
CountSeverity(reports, sev) == Len(SelectSeq(reports, LAMBDA r : r.severity = sev))

\* the dictionary analyze() returns for the findings `reports`
Report(g, reports) ==
    [total_deadlocks_detected |-> Len(reports),
     by_severity |-> [CRITICAL |-> CountSeverity(reports, "CRITICAL"),
                      HIGH |-> CountSeverity(reports, "HIGH"),
                      MEDIUM |-> CountSeverity(reports, "MEDIUM"),
                      LOW |-> CountSeverity(reports, "LOW")],
     deadlocks |-> reports,
     rag_visualization |-> visualize_ascii(g)]

(***************************************************************************)
(* DeadlockRecommender.                                                    *)
(***************************************************************************)
\* a sample of the mitigation_strategies the recommender loads
Strategies ==
    <<[id |-> "timeout", effectiveness |-> 90, complexity |-> "MEDIUM",
       performance_impact |-> "LOW"],
      [id |-> "lock_ordering", effectiveness |-> 80, complexity |-> "LOW",
       performance_impact |-> "NONE"]>>

\* d.get(key, default)
Get(d, key, default) == IF key \in DOMAIN d THEN d[key] ELSE default

Max(a, b) == IF a >= b THEN a ELSE b
Min(a, b) == IF a <= b THEN a ELSE b

_calculate_score(strategy, severity, num_threads, num_resources) ==
    LET complexity_penalty ==
            CASE strategy.complexity = "LOW" -> 0
              [] strategy.complexity = "MEDIUM" -> -5
              [] strategy.complexity = "HIGH" -> -15
              [] OTHER -> -5
        performance_penalty ==
            CASE strategy.performance_impact = "NONE" -> 0
              [] strategy.performance_impact = "LOW" -> -5
              [] strategy.performance_impact = "MEDIUM" -> -10
              [] strategy.performance_impact = "HIGH" -> -20
              [] strategy.performance_impact = "POSITIVE" -> 10
              [] OTHER -> -5
        severity_bonus ==
            CASE severity = "CRITICAL" -> 10
              [] severity = "HIGH" -> 5
              [] severity = "MEDIUM" -> 0
              [] severity = "LOW" -> -5
              [] OTHER -> 0
        base_score ==
            strategy.effectiveness
            + (IF /\ num_threads = 2 /\ num_resources = 2
                  /\ strategy.id \in {"lock_ordering", "memory_address_ordering"}
               THEN 10 ELSE 0)
    IN Max(0, Min(100, base_score + complexity_penalty + performance_penalty
                       + severity_bonus))

RECURSIVE SortByScore(_)
\* scored_strategies.sort(key=score, reverse=True): descending, ties keep order
SortByScore(scored) ==
    IF scored = <<>> THEN <<>>
    ELSE LET n == Len(scored)
             last == scored[n]
             front == SortByScore(SubSeq(scored, 1, n - 1))
             k == Cardinality({i \in 1..Len(front) : front[i].score >= last.score})
         IN InsertAt(front, k + 1, last)

\* the top three strategies for a finding of the given severity and size
TopStrategies(severity, num_threads, num_resources) ==
    LET scored == [i \in 1..Len(Strategies) |->
                      [id |-> Strategies[i].id,
                       score |-> _calculate_score(Strategies[i], severity,
                                                  num_threads, num_resources),
                       complexity |-> Strategies[i].complexity,
                       performance_impact |-> Strategies[i].performance_impact]]
        ranked == SortByScore(scored)
    IN SubSeq(ranked, 1, Min(3, Len(ranked)))

\* the field names under which recommend() reads a finding's two lists
ThreadsKey == "threads"
ResourcesKey == "resources"

recommend(deadlock_report) ==
    LET deadlocks == Get(deadlock_report, "deadlocks", <<>>)
    IN [i \in 1..Len(deadlocks) |->
           LET deadlock == deadlocks[i]
               severity == Get(deadlock, "severity", "MEDIUM")
               num_threads == Len(Get(deadlock, ThreadsKey, <<>>))
               num_resources == Len(Get(deadlock, ResourcesKey, <<>>))
           IN [deadlock_id |-> i,
               threads |-> Get(deadlock, ThreadsKey, <<>>),
               resources |-> Get(deadlock, ResourcesKey, <<>>),
               severity |-> severity,
               probability |-> Get(deadlock, "probability", 0),
               recommended_strategies |->
                   TopStrategies(severity, num_threads, num_resources)]]

(***************************************************************************)
(* CodeAnalyzer (src/src/analyzer.py).  A parsed file is the sequence of   *)
(* nodes that ast.walk(tree) yields; of a node only what the analyzer      *)
(* looks at is kept.  A Call is func.value.id "." func.attr "(" keywords   *)
(* ")"; a With keeps the names of its items that are plain names.          *)
(***************************************************************************)
\* None, and the falsy value of "if not thread_name"
None == ""

Module == [type |-> "Module"]
FunctionDef(name) == [type |-> "FunctionDef", name |-> name]
Call(value, attr, keywords, lineno) ==
    [type |-> "Call", value |-> value, attr |-> attr, keywords |-> keywords, lineno |-> lineno]
With(items, lineno) == [type |-> "With", items |-> items, lineno |-> lineno]
\* target = threading.Lock()
AssignLock(target) == [type |-> "Assign", targets |-> <<target>>]
\* any node of another kind
Other == [type |-> "Other"]

keyword(arg, kind, value) == [arg |-> arg, kind |-> kind, value |-> value]

\* the keyword lists of the threading.Thread(...) calls considered
ThreadKeywords ==
    {<<keyword("target", "Name", "f")>>,
     <<keyword("target", "Name", "f"), keyword("name", "Constant", "w")>>,
     <<keyword("name", "Constant", "w"), keyword("target", "Name", "f")>>,
     <<keyword("name", "Constant", "w")>>,
     <<keyword("target", "Attribute", "m")>>}

WalkNodes ==
    {FunctionDef("f"), FunctionDef("g"), AssignLock("a"), Other,
     Call("a", "acquire", <<>>, 1), Call("a", "release", <<>>, 2),
     With(<<"a">>, 1), With(<<"a", "b">>, 2)}
        \cup {Call("threading", "Thread", k, 1) : k \in ThreadKeywords}

\* the parsed files: a Module node, then at most MaxNodes nodes
Sources == {<<Module>> \o w : w \in UNION {[1..k -> WalkNodes] : k \in 0..MaxNodes}}

\* CodeAnalyzer.__init__
NewAnalyzer ==
    [threads |-> <<>>, resources |-> {}, operations |-> <<>>, current_function |-> "main"]

LockOperation(thread, resource, action, line, function) ==
    [thread |-> thread, resource |-> resource, action |-> action, line |-> line,
     function |-> function]

ThreadInfo(name, created_at_line, target_function) ==
    [name |-> name, created_at_line |-> created_at_line,
     target_function |-> target_function, locks_used |-> {}]

\* self.threads[info.name] = info: a present key keeps its place in the dict
PutThread(threads, info) ==
    IF \E i \in 1..Len(threads) : threads[i].name = info.name
    THEN [i \in 1..Len(threads) |-> IF threads[i].name = info.name THEN info ELSE threads[i]]
    ELSE Append(threads, info)

RECURSIVE ScanKeywords(_, _, _)
\* the loop over node.keywords; yields target_func and thread_name
ScanKeywords(keywords, target_func, thread_name) ==
    IF keywords = <<>> THEN [target_func |-> target_func, thread_name |-> thread_name]
    ELSE LET k == Head(keywords)
         IN IF k.arg = "target"
            THEN IF k.kind = "Name"
                 THEN ScanKeywords(Tail(keywords), k.value, k.value)
                 ELSE ScanKeywords(Tail(keywords), target_func, thread_name)
            ELSE IF k.arg = "name" /\ k.kind = "Constant"
            THEN ScanKeywords(Tail(keywords), target_func, k.value)
            ELSE ScanKeywords(Tail(keywords), target_func, thread_name)

_check_thread_creation(an, node) ==
    IF node.value = "threading" /\ node.attr = "Thread"
    THEN LET scanned == ScanKeywords(node.keywords, None, None)
             target_func == scanned.target_func
             thread_name == IF scanned.thread_name = None /\ target_func # None
                            THEN target_func ELSE scanned.thread_name
         IN IF target_func # None
            THEN [an EXCEPT !.threads =
                                PutThread(@, ThreadInfo(thread_name, node.lineno, target_func))]
            ELSE an
    ELSE an

_check_lock_operation(an, node) ==
    IF node.attr \in {"acquire", "release"}
    THEN [an EXCEPT !.resources = @ \cup {node.value},
                    !.operations = Append(@, LockOperation(an.current_function, node.value,
                                                           node.attr, node.lineno,
                                                           an.current_function))]
    ELSE an

_check_lock_declaration(an, node) ==
    [an EXCEPT !.resources = @ \cup Range(node.targets)]

RECURSIVE WithItems(_, _, _)
\* "for item in node.items": one 'acquire' operation per item
WithItems(an, items, lineno) ==
    IF items = <<>> THEN an
    ELSE WithItems([an EXCEPT !.resources = @ \cup {Head(items)},
                              !.operations =
                                  Append(@, LockOperation(an.current_function, Head(items),
                                                          "acquire", lineno,
                                                          an.current_function))],
                   Tail(items), lineno)

RECURSIVE _check_with_statements(_, _)
\* one pass over ast.walk(tree)
_check_with_statements(an, tree) ==
    IF tree = <<>> THEN an
    ELSE _check_with_statements(IF Head(tree).type = "With"
                                THEN WithItems(an, Head(tree).items, Head(tree).lineno)
                                ELSE an,
                                Tail(tree))

\* the body of the loop of _analyze_tree for one node of the tree
AnalyzeNode(an, node, tree) ==
    LET entered == IF node.type = "FunctionDef"
                   THEN [an EXCEPT !.current_function = node.name] ELSE an
        called == IF node.type = "Call"
                  THEN _check_lock_operation(_check_thread_creation(entered, node), node)
                  ELSE entered
        assigned == IF node.type = "Assign"
                    THEN _check_lock_declaration(called, node) ELSE called
    IN _check_with_statements(assigned, tree)

_generate_report(an) ==
    [threads |-> an.threads,
     resources |-> an.resources,
     operations |-> an.operations,
     summary |-> [total_threads |-> Len(an.threads),
                  total_resources |-> Cardinality(an.resources),
                  total_operations |-> Len(an.operations)]]

(***************************************************************************)
(* KnowledgeBase (src/src/knowledge_base.py).  A dict is the sequence of   *)
(* its values in insertion order.  An Optional value is <<>> for None and  *)
(* <<x>> for x.  A timestamp is <<n>>, n the number of the call that took  *)
(* it, and <<>> stands for the empty date of the default patterns.  The    *)
(* float avg_user_rating is kept as the exact fraction num/den.            *)
(***************************************************************************)
Nothing == <<>>
Some(x) == <<x>>

RECURSIVE GCD(_, _)
GCD(a, b) == IF b = 0 THEN a ELSE GCD(b, a % b)

\* the fraction n/d in lowest terms
Ratio(n, d) == [num |-> n \div GCD(n, d), den |-> d \div GCD(n, d)]

PatternRecord(pattern_id, pattern_name, detected_in_file, detection_date, threads_involved, resources_involved, notes) ==
    [pattern_id |-> pattern_id, pattern_name |-> pattern_name,
     detected_in_file |-> detected_in_file, detection_date |-> detection_date,
     threads_involved |-> threads_involved, resources_involved |-> resources_involved,
     solution_applied |-> Nothing, solution_effective |-> Nothing,
     user_feedback |-> Nothing, notes |-> notes]

SolutionRecord(solution_id, solution_name, complexity, performance_impact) ==
    [solution_id |-> solution_id, solution_name |-> solution_name,
     times_used |-> 0, times_successful |-> 0, avg_user_rating |-> Ratio(0, 1),
     complexity |-> complexity, performance_impact |-> performance_impact]

\* the notes are written without their accents
default_patterns ==
    <<PatternRecord("classic_two_thread", "Classic Two-Thread Deadlock", "", Nothing,
                    <<>>, <<>>, "2 threads, 2 locks, orden inverso"),
      PatternRecord("nested_locks_3_levels", "Nested Lock Acquisition (3+ levels)", "",
                    Nothing, <<>>, <<>>, "Adquisicion anidada profunda de locks"),
      PatternRecord("dining_philosophers", "Dining Philosophers Variant", "", Nothing,
                    <<>>, <<>>, "Patron circular de recursos")>>

default_solutions ==
    <<SolutionRecord("lock_ordering", "Lock Ordering Strategy", "LOW", "NONE"),
      SolutionRecord("try_lock_timeout", "Try-Lock with Timeout", "MEDIUM", "LOW"),
      SolutionRecord("lock_hierarchy", "Lock Hierarchy", "HIGH", "NONE")>>

\* the object after __init__ found no file at db_path
_initialize_default_patterns ==
    [patterns |-> default_patterns, solutions |-> default_solutions, history |-> <<>>]

\* what _save_database writes for the object kb
_save_database(kb) ==
    [patterns |-> kb.patterns, solutions |-> kb.solutions, history |-> kb.history]

\* the keys of self.patterns
PatternKeys(kb) == {kb.patterns[i].pattern_id : i \in 1..Len(kb.patterns)}

\* the arguments the calls are made with
PatternIdInputs == {"classic_two_thread", "custom_pattern"}
SolutionIdInputs == {"lock_ordering", "try_lock_timeout", "custom_solution"}
RatingInputs == {Nothing, Some(4)}
FilenameInput == "examples/deadlock_example.py"
ThreadsInput == <<"thread_1", "thread_2">>
ResourcesInput == <<"lock_a", "lock_b">>

\* f"Pattern {pattern_id}"
FormatPatternName(pattern_id) ==
    CASE pattern_id = "classic_two_thread" -> "Pattern classic_two_thread"
      [] pattern_id = "custom_pattern" -> "Pattern custom_pattern"

\* the object after register_detection, `now` being the time of the call
DetectionRegistered(kb, pattern_id, filename, threads, resources, notes, now) ==
    [kb EXCEPT
        !.patterns =
            IF pattern_id \notin PatternKeys(kb)
            THEN Append(@, PatternRecord(pattern_id, FormatPatternName(pattern_id), filename,
                                         now, threads, resources, notes))
            ELSE [i \in 1..Len(@) |->
                     IF @[i].pattern_id = pattern_id
                     THEN [@[i] EXCEPT !.detected_in_file = filename,
                                       !.detection_date = now,
                                       !.threads_involved = threads,
                                       !.resources_involved = resources]
                     ELSE @[i]],
        !.history = Append(@, [event |-> "detection", pattern_id |-> pattern_id,
                               filename |-> filename, timestamp |-> now])]

\* faulty variant of Successes: the success flag is not looked at
SuccessesAlways(solution, success) == solution.times_successful + 1

\* times_successful after "if success: solution.times_successful += 1"
Successes(solution, success) ==
    IF success THEN solution.times_successful + 1 ELSE solution.times_successful

\* the solution record after the statistics update of register_solution_applied
SolutionUsed(solution, success, user_rating) ==
    LET total_ratings == solution.times_used + 1
        avg == solution.avg_user_rating
    IN [solution EXCEPT
           !.times_used = total_ratings,
           !.times_successful = Successes(solution, success),
           !.avg_user_rating =
               IF user_rating # Nothing
               THEN Ratio(avg.num * (total_ratings - 1) + user_rating[1] * avg.den,
                          avg.den * total_ratings)
               ELSE @]

\* the object after register_solution_applied on a known pattern
SolutionApplied(kb, pattern_id, solution_id, success, user_rating, now) ==
    [kb EXCEPT
        !.patterns = [i \in 1..Len(@) |->
                         IF @[i].pattern_id = pattern_id
                         THEN [@[i] EXCEPT !.solution_applied = Some(solution_id),
                                           !.solution_effective = Some(success),
                                           !.user_feedback = user_rating]
                         ELSE @[i]],
        !.solutions = [i \in 1..Len(@) |->
                          IF @[i].solution_id = solution_id
                          THEN SolutionUsed(@[i], success, user_rating)
                          ELSE @[i]],
        !.history = Append(@, [event |-> "solution_applied", pattern_id |-> pattern_id,
                               solution_id |-> solution_id, success |-> success,
                               rating |-> user_rating, timestamp |-> now])]

(***************************************************************************)
(* The two-thread inversion family: t1 acquires r1 then r2, t2 acquires r2 *)
(* then r1, every line numbering in 1..ClassicMaxLine that keeps each      *)
(* thread's own order, either thread's operations first in the list, and   *)
(* optionally the four releases after all acquires.                        *)
(***************************************************************************)
ClassicAcquires(l1, l2, l3, l4) ==
    <<Op("t1", "r1", "acquire", l1), Op("t1", "r2", "acquire", l2),
      Op("t2", "r2", "acquire", l3), Op("t2", "r1", "acquire", l4)>>

ClassicReleases ==
    <<Op("t1", "r2", "release", ClassicMaxLine + 1),
      Op("t1", "r1", "release", ClassicMaxLine + 2),
      Op("t2", "r1", "release", ClassicMaxLine + 1),
      Op("t2", "r2", "release", ClassicMaxLine + 2)>>

ClassicLists ==
    LET numbered == {ClassicAcquires(l[1], l[2], l[3], l[4]) :
                        l \in {m \in [1..4 -> 1..ClassicMaxLine] : m[1] < m[2] /\ m[3] < m[4]}}
        ordered == numbered \cup {<<a[3], a[4], a[1], a[2]>> : a \in numbered}
    IN ordered \cup {a \o ClassicReleases : a \in ordered}

\* the lists a detector is given in the main specification
OpLists == ShortLists \cup ClassicLists

\* the lists of the reload specification
ReloadLists == ListsOver(OpsOver(ThreadNames, ResourceNames, {1}), MaxReloadOps)

(***************************************************************************)
(* The ingestion family: the lists as json.load hands them over, records   *)
(* that lack a key or whose 'line' is a JSON string included.              *)
(***************************************************************************)
\* stands for a 'line' value that is a string; it is none of the line numbers
StringLine == -1

\* isinstance(l, int)
IsIntegerLine(l) == l # StringLine

\* the record op as a JSON object that lacks key f
Without(op, f) == [k \in DOMAIN op \ {f} |-> op[k]]

IngestOps == OpsOver(ThreadNames, {"r1"}, 1..MaxLine)

MalformedOps ==
    {Without(o, f) : o \in IngestOps, f \in {"thread", "resource", "action"}}
        \cup {[o EXCEPT !.line = StringLine] : o \in IngestOps}

\* the two threads of the inversion family releasing, never acquiring
ReleaseOnlyLists ==
    {ClassicReleases,
     <<ClassicReleases[3], ClassicReleases[4], ClassicReleases[1], ClassicReleases[2]>>}

IngestLists ==
    ListsOver(IngestOps \cup MalformedOps, MaxIngestOps) \cup ReleaseOnlyLists

\* the record has the four keys and an integer line
WellFormed(op) ==
    /\ {"thread", "resource", "action", "line"} \subseteq DOMAIN op
    /\ IsIntegerLine(op.line)

\* op['thread'] and op['resource'] succeed for every record
Keyed(ops) == \A i \in 1..Len(ops) : {"thread", "resource"} \subseteq DOMAIN ops[i]

\* sorted(..., key=line) can compare every two keys: all integers or all strings
Sortable(ops) ==
    \A i, j \in 1..Len(ops) : IsIntegerLine(ops[i].line) = IsIntegerLine(ops[j].line)

(***************************************************************************)
(* The pair family, for the two analysis levels: every list of at most     *)
(* MaxPairOps acquires by two threads on two resources, the i-th operation *)
(* on line i; the inversion with the first thread releasing both resources *)
(* before the second thread starts; and the interleaved inversion followed *)
(* by an acquire of r2 by a thread that is itself named "r1".              *)
(***************************************************************************)
AcquireLists ==
    UNION {{[i \in 1..k |-> Op(f[i][1], f[i][2], "acquire", i)] :
               f \in [1..k -> ThreadNames \X ResourceNames]} : k \in 0..MaxPairOps}

ReleasedBetween(t, u) ==
    <<Op(t, "r1", "acquire", 1), Op(t, "r2", "acquire", 2),
      Op(t, "r2", "release", 3), Op(t, "r1", "release", 4),
      Op(u, "r2", "acquire", 5), Op(u, "r1", "acquire", 6)>>

ReleasedBetweenLists == {ReleasedBetween("t1", "t2"), ReleasedBetween("t2", "t1")}

SharedNameLists ==
    {ClassicAcquires(1, 3, 2, 4) \o <<Op("r1", "r2", "acquire", l)>> : l \in {5, 6}}

PairLists == AcquireLists \cup ReleasedBetweenLists \cup SharedNameLists

(***************************************************************************)
(* The state machine.                                                      *)
(***************************************************************************)
Init ==
    /\ operations = <<>>
    /\ rag = EmptyRag
    /\ owners = [r \in Names |-> {}]
    /\ pending = <<>>
    /\ pc = "idle"
    /\ cycles = <<>>
    /\ returned = <<>>
    /\ recommendations = <<>>
    /\ loads = 0
    /\ detectors = 1
    /\ source = <<>>
    /\ analyzer = NewAnalyzer
    /\ walk_index = 0
    /\ analysis_result = <<>>
    /\ knowledge_base = _initialize_default_patterns
    /\ db_file = _save_database(_initialize_default_patterns)
    /\ kb_call = [op |-> "__init__"]
    /\ kb_result = <<>>

\* load_analysis, the file holding the operation list ops
load_analysis(ops) ==
    /\ pc = "idle"
    /\ operations' = ops
    /\ loads' = loads + 1
    /\ UNCHANGED <<rag, owners, pending, pc, cycles, returned, recommendations, detectors, frontend, knowledge>>

\* a new detector is given its one input
load_fresh ==
    /\ loads = 0
    /\ returned = <<>>
    /\ \E ops \in OpLists : load_analysis(ops)

\* analyze() begins: build_rag registers the nodes and sorts the operations
build_rag_register ==
    /\ pc = "idle"
    /\ Len(returned) < MaxCalls
    /\ Keyed(operations)
    /\ Sortable(operations)
    /\ \E to \in Perms(ThreadsOf(operations)), ro \in Perms(ResourcesOf(operations)) :
           rag' = RegisterNodes(rag, to, ro)
    /\ owners' = FreshOwners
    /\ pending' = SortByLine(operations)
    /\ pc' = "replay"
    /\ UNCHANGED <<operations, cycles, returned, recommendations, loads, detectors, frontend, knowledge>>

\* one iteration of build_rag's replay loop
build_rag_replay ==
    /\ pc = "replay"
    /\ pending # <<>>
    /\ "action" \in DOMAIN Head(pending)
    /\ \E out \in ReplayOp(rag, owners, Head(pending)) :
           /\ rag' = out.rag
           /\ owners' = out.owners
    /\ pending' = Tail(pending)
    /\ UNCHANGED <<operations, pc, cycles, returned, recommendations, loads, detectors, frontend, knowledge>>

\* the replay is over: both levels run and analyze() returns the report
analyze_return ==
    /\ pc = "replay"
    /\ pending = <<>>
    /\ cycles' = detect_cycles(rag)
    /\ returned' = Append(returned,
                          Report(rag, level1_static_analysis(rag, operations)
                                      \o level2_control_flow_analysis(operations)))
    /\ pc' = "idle"
    /\ UNCHANGED <<operations, rag, owners, pending, recommendations, loads, detectors, frontend, knowledge>>

\* the report consumer is handed the latest report
recommend_latest ==
    /\ pc = "idle"
    /\ returned # <<>>
    /\ recommendations' = recommend(returned[Len(returned)])
    /\ UNCHANGED <<operations, rag, owners, pending, pc, cycles, returned, loads, detectors, frontend, knowledge>>

Next ==
    \/ load_fresh
    \/ build_rag_register
    \/ build_rag_replay
    \/ analyze_return
    \/ recommend_latest

Spec == Init /\ [][Next]_vars

(***************************************************************************)
(* The reload specification: one detector is given a first list before its *)
(* first analyze() call and a second list after it.                        *)
(***************************************************************************)
load_next ==
    /\ loads < 2
    /\ Len(returned) = loads
    /\ \E ops \in ReloadLists : load_analysis(ops)

NextReload ==
    \/ load_next
    \/ build_rag_register
    \/ build_rag_replay
    \/ analyze_return

SpecReload == Init /\ [][NextReload]_vars

(***************************************************************************)
(* The two-run specification: after a detector has analysed its list, a    *)
(* second detector is constructed and given the same list.  The reports of *)
(* the first detector stay in `returned`.                                  *)
(***************************************************************************)
rerun_fresh ==
    /\ pc = "idle"
    /\ detectors = 1
    /\ Len(returned) = 1
    /\ rag' = EmptyRag
    /\ detectors' = detectors + 1
    /\ UNCHANGED <<operations, owners, pending, pc, cycles, returned, recommendations, loads, frontend, knowledge>>

NextFresh ==
    \/ load_fresh
    \/ build_rag_register
    \/ build_rag_replay
    \/ analyze_return
    \/ rerun_fresh

SpecFresh == Init /\ [][NextFresh]_vars

(***************************************************************************)
(* The ingestion specification: a new detector is given a list of the      *)
(* ingestion family and analyze() is called.  An exception that leaves     *)
(* analyze() ends the run with pc = "raised".                              *)
(***************************************************************************)
load_ingest ==
    /\ loads = 0
    /\ returned = <<>>
    /\ \E ops \in IngestLists : load_analysis(ops)

\* op['thread'] or op['resource'] raises KeyError while the two sets are built
build_rag_key_error ==
    /\ pc = "idle"
    /\ Len(returned) < MaxCalls
    /\ loads > 0
    /\ ~Keyed(operations)
    /\ pc' = "raised"
    /\ UNCHANGED <<operations, rag, owners, pending, cycles, returned, recommendations,
                   loads, detectors, frontend, knowledge>>

\* the nodes are registered, then sorted() raises TypeError on mixed keys
build_rag_type_error ==
    /\ pc = "idle"
    /\ Len(returned) < MaxCalls
    /\ Keyed(operations)
    /\ ~Sortable(operations)
    /\ \E to \in Perms(ThreadsOf(operations)), ro \in Perms(ResourcesOf(operations)) :
           rag' = RegisterNodes(rag, to, ro)
    /\ owners' = FreshOwners
    /\ pc' = "raised"
    /\ UNCHANGED <<operations, pending, cycles, returned, recommendations, loads, detectors, frontend, knowledge>>

\* op['action'] raises KeyError inside the replay loop
build_rag_replay_key_error ==
    /\ pc = "replay"
    /\ pending # <<>>
    /\ "action" \notin DOMAIN Head(pending)
    /\ pc' = "raised"
    /\ UNCHANGED <<operations, rag, owners, pending, cycles, returned, recommendations,
                   loads, detectors, frontend, knowledge>>

NextIngest ==
    \/ load_ingest
    \/ build_rag_key_error
    \/ build_rag_register
    \/ build_rag_type_error
    \/ build_rag_replay
    \/ build_rag_replay_key_error
    \/ analyze_return

SpecIngest == Init /\ [][NextIngest]_vars

(***************************************************************************)
(* The pair specification: a new detector is given a list of the pair      *)
(* family and analyze() is called.                                         *)
(***************************************************************************)
load_pairs ==
    /\ loads = 0
    /\ returned = <<>>
    /\ \E ops \in PairLists : load_analysis(ops)

NextPairs ==
    \/ load_pairs
    \/ build_rag_register
    \/ build_rag_replay
    \/ analyze_return

SpecPairs == Init /\ [][NextPairs]_vars

(***************************************************************************)
(* The front-end specification: a new CodeAnalyzer analyses one file.      *)
(***************************************************************************)
detector == <<operations, rag, owners, pending, pc, cycles, returned,
              recommendations, loads, detectors>>

\* analyze_file reads and parses the file
analyze_file_parse ==
    /\ source = <<>>
    /\ source' \in Sources
    /\ UNCHANGED <<analyzer, walk_index, analysis_result, detector, knowledge>>

\* one iteration of the loop of _analyze_tree
_analyze_tree ==
    /\ source # <<>>
    /\ walk_index < Len(source)
    /\ analyzer' = AnalyzeNode(analyzer, source[walk_index + 1], source)
    /\ walk_index' = walk_index + 1
    /\ UNCHANGED <<source, analysis_result, detector, knowledge>>

\* the loop is over: analyze_file returns the report
analyze_file_return ==
    /\ source # <<>>
    /\ walk_index = Len(source)
    /\ analysis_result = <<>>
    /\ analysis_result' = <<_generate_report(analyzer)>>
    /\ UNCHANGED <<source, analyzer, walk_index, detector, knowledge>>

NextFrontEnd ==
    \/ analyze_file_parse
    \/ _analyze_tree
    \/ analyze_file_return

SpecFrontEnd == Init /\ [][NextFrontEnd]_vars

(***************************************************************************)
(* The knowledge-base specification: a KnowledgeBase started without a     *)
(* file receives at most MaxKbCalls calls.                                 *)
(***************************************************************************)
register_detection ==
    /\ Len(kb_result) < MaxKbCalls
    /\ \E pattern_id \in PatternIdInputs :
           /\ knowledge_base' =
                  DetectionRegistered(knowledge_base, pattern_id, FilenameInput, ThreadsInput,
                                      ResourcesInput, "", Some(Len(kb_result) + 1))
           /\ kb_call' = [op |-> "register_detection", pattern_id |-> pattern_id]
    /\ db_file' = _save_database(knowledge_base')
    /\ kb_result' = Append(kb_result, TRUE)
    /\ UNCHANGED <<detector, frontend>>

register_solution_applied ==
    /\ Len(kb_result) < MaxKbCalls
    /\ \E pattern_id \in PatternIdInputs, solution_id \in SolutionIdInputs,
          success \in BOOLEAN, user_rating \in RatingInputs :
           /\ kb_call' = [op |-> "register_solution_applied", pattern_id |-> pattern_id,
                          solution_id |-> solution_id, success |-> success,
                          user_rating |-> user_rating]
           /\ IF pattern_id \notin PatternKeys(knowledge_base)
              THEN /\ kb_result' = Append(kb_result, FALSE)
                   /\ UNCHANGED <<knowledge_base, db_file>>
              ELSE /\ knowledge_base' =
                          SolutionApplied(knowledge_base, pattern_id, solution_id, success,
                                          user_rating, Some(Len(kb_result) + 1))
                   /\ db_file' = _save_database(knowledge_base')
                   /\ kb_result' = Append(kb_result, TRUE)
    /\ UNCHANGED <<detector, frontend>>

NextKnowledge ==
    \/ register_detection
    \/ register_solution_applied

SpecKnowledge == Init /\ [][NextKnowledge]_vars

(***************************************************************************)
(* Properties.                                                             *)
(***************************************************************************)
\* analyze() has returned and the detector is at rest
Analysed == pc = "idle" /\ returned # <<>>

LastReport == returned[Len(returned)]

\* the findings of report rep that analysis level n produced
FindingsOfLevel(rep, n) == SelectSeq(rep.deadlocks, LAMBDA d : d.analysis_level = n)

\* C1: for the two-thread inversion (t1 takes r1 then r2, t2 takes r2 then
\* r1, any line numbering keeping each thread's order), detect_cycles returns
\* exactly one cycle, and it contains both threads and both resources.
C1_ClassicOneCycle ==
    (Analysed /\ operations \in ClassicLists)
        => /\ Len(cycles) = 1
           /\ Range(cycles[1]) = {"t1", "t2", "r1", "r2"}

\* C2: for the two-thread inversion, analyze() reports exactly one level-1
\* finding of severity HIGH and exactly one level-2 finding of severity
\* MEDIUM, two findings in total.
C2_ClassicTwoFindings ==
    (Analysed /\ operations \in ClassicLists)
        => /\ Len(FindingsOfLevel(LastReport, 1)) = 1
           /\ \A i \in 1..Len(LastReport.deadlocks) :
                  LastReport.deadlocks[i].analysis_level = 1
                      => LastReport.deadlocks[i].severity = "HIGH"
           /\ Len(FindingsOfLevel(LastReport, 2)) = 1
           /\ \A i \in 1..Len(LastReport.deadlocks) :
                  LastReport.deadlocks[i].analysis_level = 2
                      => LastReport.deadlocks[i].severity = "MEDIUM"
           /\ LastReport.total_deadlocks_detected = 2

\* C3: two fresh detectors given the same operation list return identical
\* reports, whatever order their sets enumerate in.
C3_TwoRunsSameReport ==
    (pc = "idle" /\ detectors = 2 /\ Len(returned) >= 2) => returned[2] = returned[1]

\* C4: on one detector with an unchanged list, every later analyze() call
\* returns a report equal to the first one, and once the first call has
\* returned no later step changes the graph.
C4_Idempotent ==
    /\ [](\A i \in 1..Len(returned) : returned[i] = returned[1])
    /\ [][returned # <<>> => rag' = rag]_vars

\* a second call has returned on a list that has findings and edges
C4_Witness ==
    /\ pc = "idle"
    /\ Len(returned) >= 2
    /\ returned[2].total_deadlocks_detected >= 2
    /\ \E e \in rag.edges : e[3] = "request"

RECURSIVE ReplayAll(_, _)
\* every outcome of replaying ops from the build states in S
ReplayAll(S, ops) ==
    IF ops = <<>> THEN S
    ELSE ReplayAll(UNION {ReplayOp(b.rag, b.owners, Head(ops)) : b \in S}, Tail(ops))

\* the graphs a newly constructed detector can hold after build_rag on ops
FreshBuilds(ops) ==
    LET registered == {[rag |-> RegisterNodes(EmptyRag, to, ro), owners |-> FreshOwners] :
                          to \in Perms(ThreadsOf(ops)), ro \in Perms(ResourcesOf(ops))}
    IN {b.rag : b \in ReplayAll(registered, SortByLine(ops))}

\* the report analyze() assembles from graph g and list ops
ReportOf(g, ops) ==
    Report(g, level1_static_analysis(g, ops) \o level2_control_flow_analysis(ops))

\* C5: after a detector has analysed one list and then loads and analyses
\* another, its graph and its report are those of a new detector given the
\* second list alone.
C5_NoStateAcrossLists ==
    (pc = "idle" /\ loads = 2 /\ Len(returned) = 2)
        => /\ rag \in FreshBuilds(operations)
           /\ returned[2] \in {ReportOf(g, operations) : g \in FreshBuilds(operations)}

\* all operations of the loaded list are issued by one thread
SingleThread == Cardinality(ThreadsOf(operations)) = 1

\* no acquire names a resource exactly as the acquiring thread is named
NoSelfNamedAcquire ==
    \A i \in 1..Len(operations) :
        operations[i].action = "acquire" => operations[i].resource # operations[i].thread

NoContention ==
    /\ \A e \in rag.edges : e[3] # "request"
    /\ cycles = <<>>
    /\ LastReport.total_deadlocks_detected = 0

\* C6 as claimed: for every list issued by a single thread, build_rag adds
\* no Request edge, detect_cycles returns nothing and the report's total is 0.
C6_SingleThreadAnyNames == (Analysed /\ SingleThread) => NoContention

\* C6 as amended: the same, for single-thread lists in which the thread
\* acquires no resource that bears the thread's own name.
C6_SingleThreadNoContention ==
    (Analysed /\ SingleThread /\ NoSelfNamedAcquire) => NoContention

\* one thread has acquired and then released one resource, and is analysed
C6_Witness ==
    /\ Analysed
    /\ operations = <<Op("t1", "r1", "acquire", 1), Op("t1", "r1", "release", 2)>>

\* op is a release by a thread that the owner table ow does not list
UnmatchedRelease(op, ow) == op.action = "release" /\ op.thread \notin ow[op.resource]

\* the owner table after op, as the replay rules state it
OwnersAfterOp(ow, op) ==
    IF op.action = "acquire" THEN [ow EXCEPT ![op.resource] = @ \cup {op.thread}]
    ELSE IF op.action = "release" THEN [ow EXCEPT ![op.resource] = @ \ {op.thread}]
    ELSE ow

RECURSIVE WithoutUnmatched(_, _)
\* ops, replayed from owner table ow, with its unmatched releases left out
WithoutUnmatched(ops, ow) ==
    IF ops = <<>> THEN <<>>
    ELSE IF UnmatchedRelease(Head(ops), ow) THEN WithoutUnmatched(Tail(ops), ow)
    ELSE <<Head(ops)>> \o WithoutUnmatched(Tail(ops), OwnersAfterOp(ow, Head(ops)))

RECURSIVE OwnersAfter(_, _)
OwnersAfter(ops, ow) ==
    IF ops = <<>> THEN ow ELSE OwnersAfter(Tail(ops), OwnersAfterOp(ow, Head(ops)))

\* the build states a new detector reaches when it registers the nodes of
\* ops but replays only `replayed`
BuildsReplaying(ops, replayed) ==
    ReplayAll({[rag |-> RegisterNodes(EmptyRag, to, ro), owners |-> FreshOwners] :
                  to \in Perms(ThreadsOf(ops)), ro \in Perms(ResourcesOf(ops))},
              replayed)

\* C7: replaying a Release by a thread that is not an owner of the resource
\* changes neither the owner table nor the graph, and when the replay is
\* over the edges and the owner table are those of the same list replayed
\* without its unmatched releases.
C7_TolerantRelease ==
    /\ [][(pc = "replay" /\ pending # <<>> /\ UnmatchedRelease(Head(pending), owners))
             => (owners' = owners /\ rag' = rag)]_vars
    /\ []((pc = "replay" /\ pending = <<>>)
             => \E b \in BuildsReplaying(operations,
                                         WithoutUnmatched(SortByLine(operations), FreshOwners)) :
                    b.owners = owners /\ b.rag.edges = rag.edges)

\* the replay is over; it met an unmatched release, and an acquire of the
\* same resource followed it
C7_Witness ==
    /\ pc = "replay"
    /\ pending = <<>>
    /\ LET sorted == SortByLine(operations)
       IN \E i, j \in 1..Len(sorted) :
              /\ i < j
              /\ UnmatchedRelease(sorted[i], OwnersAfter(SubSeq(sorted, 1, i - 1), FreshOwners))
              /\ sorted[j].action = "acquire"
              /\ sorted[j].resource = sorted[i].resource

\* the names the loaded list mentions
Mentioned ==
    {operations[i].thread : i \in 1..Len(operations)}
        \cup {operations[i].resource : i \in 1..Len(operations)}

Registered(n) ==
    /\ n \in Range(rag.keys)
    /\ n \in DOMAIN rag.graph
    /\ n \in DOMAIN rag.node_types
    /\ rag.node_types[n] \in {"thread", "resource"}

\* C8: once build_rag has registered the nodes, every thread and resource
\* name an operation mentions is a node with a kind, and both ends of every
\* edge are nodes.
C8_NodeSet ==
    (pc = "replay" \/ Analysed)
        => /\ \A n \in Mentioned : Registered(n)
           /\ \A e \in rag.edges : Registered(e[1]) /\ Registered(e[2])

\* a list has been analysed in which some resource is released, never acquired
C8_Witness ==
    /\ Analysed
    /\ \E i \in 1..Len(operations) :
           /\ operations[i].action = "release"
           /\ \A j \in 1..Len(operations) :
                  operations[j].resource = operations[i].resource
                      => operations[j].action = "release"

\* c is the smallest of its rotations
IsCanonical(c) == \A o \in Rotations(c) : o = c \/ LexLess(c, o)

\* C9: no two entries of detect_cycles' result are rotations of one another,
\* every entry is the smallest rotation of its node sequence, and every cycle
\* the search met is represented by exactly one entry.
C9_Canonical ==
    Analysed
        => /\ \A i \in 1..Len(cycles) : IsCanonical(cycles[i])
           /\ \A i, j \in 1..Len(cycles) : i # j => cycles[j] \notin Rotations(cycles[i])
           /\ \A k \in 1..Len(RawCycles(rag)) :
                  Cardinality({i \in 1..Len(cycles) :
                                  cycles[i] \in Rotations(Cyclic(RawCycles(rag)[k]))}) = 1

\* the search met a cycle through four nodes at a node that is not the
\* first of its canonical form
C9_Witness ==
    /\ Analysed
    /\ \E k \in 1..Len(RawCycles(rag)) :
           /\ Len(Cyclic(RawCycles(rag)[k])) = 4
           /\ ~IsCanonical(Cyclic(RawCycles(rag)[k]))

\* C10: every finding carries its two lists under the names the consumer
\* reads, so each recommendation repeats the finding's thread list and
\* resource list and is scored with the finding's numbers of threads and
\* resources.
C10_CanonicalFindingSchema ==
    (pc = "idle" /\ returned # <<>> /\ recommendations = recommend(LastReport))
        => \A i \in 1..Len(LastReport.deadlocks) :
               LET finding == LastReport.deadlocks[i]
                   rec == recommendations[i]
               IN /\ {ThreadsKey, ResourcesKey} \subseteq DOMAIN finding
                  /\ rec.threads = finding.threads_involved
                  /\ rec.resources = finding.resources_involved
                  /\ rec.recommended_strategies =
                         TopStrategies(finding.severity, Len(finding.threads_involved),
                                       Len(finding.resources_involved))

\* some record of the list lacks a key or has a line that is not an integer
Malformed(ops) == \E i \in 1..Len(ops) : ~WellFormed(ops[i])

\* C11: a list holding a record that lacks thread, resource or action, or
\* whose line is not an integer, is rejected when it is loaded: wherever the
\* record sits, no node and no edge is ever added to the graph for it and
\* no replay and no report is made of it.
C11_MalformedRejected ==
    Malformed(operations)
        => /\ rag.keys = <<>>
           /\ rag.edges = {}
           /\ pc # "replay"
           /\ returned = <<>>

\* every record is well formed and none is an Acquire
NoAcquire(ops) ==
    \A i \in 1..Len(ops) : WellFormed(ops[i]) /\ ops[i].action # "acquire"

\* C12: for the empty list and for every list without an Acquire, analyze()
\* raises nothing, and the report it returns has no finding, total 0 and
\* 0 in each of the four severity buckets.
C12_DegenerateNeverFails ==
    (loads > 0 /\ NoAcquire(operations))
        => /\ pc # "raised"
           /\ Analysed
                  => /\ LastReport.deadlocks = <<>>
                     /\ LastReport.total_deadlocks_detected = 0
                     /\ LastReport.by_severity =
                            [CRITICAL |-> 0, HIGH |-> 0, MEDIUM |-> 0, LOW |-> 0]

\* analyze() has returned for two threads that release two resources each,
\* in opposite orders, and acquire nothing
C12_Witness ==
    /\ Analysed
    /\ operations \in ReleaseOnlyLists

\* what the Acquire rule states of a replay step on an Acquire of resource r
\* by thread t
AcquireStep ==
    LET t == Head(pending).thread
        r == Head(pending).resource
        contended == \E u \in owners[r] : u # t
    IN /\ rag'.edges = rag.edges \cup {<<t, r, "hold">>}
                         \cup (IF contended THEN {<<r, t, "request">>} ELSE {})
       /\ r \in Range(rag'.graph[t])
       /\ contended => t \in Range(rag'.graph[r])
       /\ owners' = [owners EXCEPT ![r] = @ \cup {t}]

\* C15: when the replay meets an Acquire of resource r by thread
\* t, the Request edge r->t is in the graph afterwards if a thread other
\* than t is in r's owner set at that point, and no Request edge is added if
\* none is (also when t alone already owns r); in every case the Hold edge
\* t->r is in the graph afterwards, nothing else is added, and t joins r's
\* owners while the owners already there stay.
C15_AcquireRule ==
    [][(pc = "replay" /\ pending # <<>> /\ Head(pending).action = "acquire")
          => AcquireStep]_vars

\* no two operations of the list have the same line
DistinctLines(ops) ==
    \A i, j \in 1..Len(ops) : i # j => ops[i].line # ops[j].line

\* the lists that hold the operations of ops in some order
Reorderings(ops) ==
    {[i \in 1..Len(ops) |-> ops[p[i]]] : p \in Perms(1..Len(ops))}

\* C16: for a list whose line numbers are pairwise distinct, every
\* permutation of the list gives a new detector the same edge set after
\* build_rag and the same list of level-2 findings.
C16_OrderIrrelevant ==
    (pc = "replay" /\ pending = <<>> /\ returned = <<>> /\ DistinctLines(operations))
        => \A p \in Reorderings(operations) :
               /\ \A g \in FreshBuilds(p) : g.edges = rag.edges
               /\ level2_control_flow_analysis(p) = level2_control_flow_analysis(operations)

\* build_rag is over for four acquires with distinct lines that were given
\* out of line order and led to a Request edge
C16_Witness ==
    /\ pc = "replay"
    /\ pending = <<>>
    /\ returned = <<>>
    /\ Len(operations) = 4
    /\ DistinctLines(operations)
    /\ operations # SortByLine(operations)
    /\ \E e \in rag.edges : e[3] = "request"

\* C17: when build_rag is over, every Hold edge t->r in the graph joins a
\* thread to a resource it currently owns: t is in r's owner set.
C17_HoldMeansOwned ==
    (pc = "replay" /\ pending = <<>>)
        => \A e \in rag.edges : e[3] = "hold" => e[1] \in owners[e[2]]

\* the positions of cycle c whose node has the given kind in the graph
NodesOfKind(c, kind) ==
    {i \in 1..Len(c) : c[i] \in DOMAIN rag.node_types /\ rag.node_types[c[i]] = kind}

\* at least two thread nodes and at least one resource node
Qualifies(c) ==
    /\ Cardinality(NodesOfKind(c, "thread")) >= 2
    /\ Cardinality(NodesOfKind(c, "resource")) >= 1

\* C18: the level-1 findings are, in order, one for each cycle returned by
\* detect_cycles that has at least two thread nodes and at least one
\* resource node, and none for any other cycle; each has severity HIGH,
\* probability 0.85, analysis level 1 and the canonical cycle as its path.
C18_Level1Filter ==
    Analysed
        => LET found == FindingsOfLevel(LastReport, 1)
               kept == SelectSeq(cycles, Qualifies)
           IN /\ Len(found) = Len(kept)
              /\ \A i \in 1..Len(found) :
                     /\ found[i].cycle_path = kept[i]
                     /\ IsCanonical(found[i].cycle_path)
                     /\ found[i].severity = "HIGH"
                     /\ found[i].probability = Level1Probability
                     /\ found[i].analysis_level = 1

\* a report has a level-1 finding while detect_cycles also returned a cycle
\* that is not reported
C18_Witness ==
    /\ Analysed
    /\ Len(FindingsOfLevel(LastReport, 1)) >= 1
    /\ Len(cycles) > Len(FindingsOfLevel(LastReport, 1))

\* the positions of the Acquire operations in the loaded list
AcquireIndices == {i \in 1..Len(operations) : operations[i].action = "acquire"}

\* C19: every line a finding reports is the line of some Acquire operation
\* of the list, and the lines of a level-1 finding are exactly the lines, in
\* ascending order without duplicates, of all Acquire operations whose
\* thread and resource both lie on the finding's cycle.
C19_LinesFromInput ==
    Analysed
        => \A k \in 1..Len(LastReport.deadlocks) :
               LET d == LastReport.deadlocks[k]
                   onCycle == {i \in AcquireIndices :
                                  /\ operations[i].thread \in Range(d.cycle_path)
                                  /\ operations[i].resource \in Range(d.cycle_path)}
               IN /\ \A n \in 1..Len(d.line_numbers) :
                         \E i \in AcquireIndices : operations[i].line = d.line_numbers[n]
                  /\ d.analysis_level = 1
                         => d.line_numbers = SortedInts({operations[i].line : i \in onCycle})

\* the Acquire operations of thread t, and which of two comes first in line
\* order (equal lines in input order)
AcquiresBy(t) == {i \in AcquireIndices : operations[i].thread = t}

Earlier(i, j) ==
    \/ operations[i].line < operations[j].line
    \/ operations[i].line = operations[j].line /\ i < j

FirstAcquire(t) == CHOOSE i \in AcquiresBy(t) : \A j \in AcquiresBy(t) \ {i} : Earlier(i, j)

SecondAcquire(t) ==
    CHOOSE i \in AcquiresBy(t) \ {FirstAcquire(t)} :
        \A j \in AcquiresBy(t) \ {FirstAcquire(t), i} : Earlier(i, j)

\* both threads acquire at least twice, and the first two resources of each
\* are the same two distinct resources in opposite order
Inverted(t, u) ==
    /\ Cardinality(AcquiresBy(t)) >= 2
    /\ Cardinality(AcquiresBy(u)) >= 2
    /\ operations[FirstAcquire(t)].resource # operations[SecondAcquire(t)].resource
    /\ operations[FirstAcquire(t)].resource = operations[SecondAcquire(u)].resource
    /\ operations[SecondAcquire(t)].resource = operations[FirstAcquire(u)].resource

\* C20: the level-2 findings are exactly one for each unordered pair of
\* distinct threads that is inverted, and none for any other pair; each has
\* severity MEDIUM, probability 0.65, analysis level 2, the path
\* [t1, a, t2, b, t1] with a, b the first two resources of t1, and the first
\* acquire lines of the two threads; the graph plays no part.
C20_Level2Rule ==
    Analysed
        => LET found == FindingsOfLevel(LastReport, 2)
               about(t, u) == {k \in 1..Len(found) : Range(found[k].threads_involved) = {t, u}}
           IN /\ \A t, u \in ThreadsOf(operations) :
                     t # u => Cardinality(about(t, u)) = (IF Inverted(t, u) THEN 1 ELSE 0)
              /\ \A k \in 1..Len(found) :
                     LET t == found[k].threads_involved[1]
                         u == found[k].threads_involved[2]
                     IN /\ Len(found[k].threads_involved) = 2
                        /\ t # u
                        /\ Inverted(t, u)
                        /\ found[k].cycle_path =
                               <<t, operations[FirstAcquire(t)].resource,
                                 u, operations[SecondAcquire(t)].resource, t>>
                        /\ found[k].line_numbers =
                               <<operations[FirstAcquire(t)].line,
                                 operations[FirstAcquire(u)].line>>
                        /\ found[k].severity = "MEDIUM"
                        /\ found[k].probability = Level2Probability
                        /\ found[k].analysis_level = 2

\* a level-2 finding is reported for a list whose releases kept every
\* Request edge out of the graph
C20_Witness ==
    /\ Analysed
    /\ operations \in ReleasedBetweenLists
    /\ \A e \in rag.edges : e[3] # "request"
    /\ Len(FindingsOfLevel(LastReport, 2)) = 1

\* the lock events of the parsed file: position n of the walk and item k,
\* k = 0 for an acquire() or release() call
LockEvents ==
    {<<n, 0>> : n \in {m \in 1..Len(source) :
                          /\ source[m].type = "Call"
                          /\ source[m].attr \in {"acquire", "release"}}}
        \cup UNION {{<<n, k>> : k \in 1..Len(source[n].items)} :
                       n \in {m \in 1..Len(source) : source[m].type = "With"}}

\* resource, action and line of a lock event
EventOf(e) ==
    IF e[2] = 0
    THEN [resource |-> source[e[1]].value, action |-> source[e[1]].attr,
          line |-> source[e[1]].lineno]
    ELSE [resource |-> source[e[1]].items[e[2]], action |-> "acquire",
          line |-> source[e[1]].lineno]

\* resource, action and line of an operation record
RecordOf(op) == [resource |-> op.resource, action |-> op.action, line |-> op.line]

\* C13: the operation list analyze_file returns holds, for every resource,
\* action and line, exactly as many records as the file has lock events
\* (acquire() and release() calls, items of with blocks) of that resource,
\* action and line: one record per event, none twice.
C13_OneOperationPerEvent ==
    analysis_result # <<>>
        => LET ops == analysis_result[1].operations
           IN /\ Len(ops) = Cardinality(LockEvents)
              /\ \A e \in LockEvents :
                     Cardinality({i \in 1..Len(ops) : RecordOf(ops[i]) = EventOf(e)})
                         = Cardinality({d \in LockEvents : EventOf(d) = EventOf(e)})

\* the threading.Thread calls of the file whose target is a plain name
ThreadCalls ==
    {n \in 1..Len(source) :
        /\ source[n].type = "Call"
        /\ source[n].value = "threading"
        /\ source[n].attr = "Thread"
        /\ \E k \in 1..Len(source[n].keywords) :
               source[n].keywords[k].arg = "target" /\ source[n].keywords[k].kind = "Name"}

\* the value of the keyword arg of call n, None if the call has none
KeywordValue(n, arg) ==
    LET at == {k \in 1..Len(source[n].keywords) : source[n].keywords[k].arg = arg}
    IN IF at = {} THEN None ELSE source[n].keywords[CHOOSE k \in at : TRUE].value

\* the explicit name if the call gives one, else the target function's name
ExpectedThreadName(n) ==
    IF KeywordValue(n, "name") # None THEN KeywordValue(n, "name")
    ELSE KeywordValue(n, "target")

\* C14: every threading.Thread call with a plain-name target has an entry
\* in the reported threads under the explicit name= constant if the call
\* gives one and under the target function's name if not, whatever the
\* order of its keywords; no other entry is reported, and
\* summary.total_threads is the number of entries.
C14_ThreadNaming ==
    analysis_result # <<>>
        => LET threads == analysis_result[1].threads
               names == {threads[i].name : i \in 1..Len(threads)}
           IN /\ names = {ExpectedThreadName(n) : n \in ThreadCalls}
              /\ analysis_result[1].summary.total_threads = Cardinality(names)

\* C21: in every report analyze() returned, all level-1 findings come
\* before all level-2 findings, total_deadlocks_detected is the number of
\* findings listed, HIGH is the number of level-1 findings, MEDIUM the
\* number of level-2 findings, CRITICAL and LOW are 0, and the four
\* buckets sum to the total.
C21_ReportAggregation ==
    \A n \in 1..Len(returned) :
        LET rep == returned[n]
            found == rep.deadlocks
        IN /\ \A i, j \in 1..Len(found) :
                  (found[i].analysis_level = 1 /\ found[j].analysis_level = 2) => i < j
           /\ \A i \in 1..Len(found) : found[i].analysis_level \in {1, 2}
           /\ rep.total_deadlocks_detected = Len(found)
           /\ rep.by_severity.HIGH = Len(FindingsOfLevel(rep, 1))
           /\ rep.by_severity.MEDIUM = Len(FindingsOfLevel(rep, 2))
           /\ rep.by_severity.CRITICAL = 0
           /\ rep.by_severity.LOW = 0
           /\ rep.by_severity.CRITICAL + rep.by_severity.HIGH
                  + rep.by_severity.MEDIUM + rep.by_severity.LOW
                  = rep.total_deadlocks_detected

\* a report with findings of both levels has been returned
C21_Witness ==
    /\ Analysed
    /\ Len(FindingsOfLevel(LastReport, 1)) >= 1
    /\ Len(FindingsOfLevel(LastReport, 2)) >= 1

\* the names the loaded list uses both as a thread and as a resource
SharedNames == ThreadsOf(operations) \cap ResourcesOf(operations)

\* C22: a name that the list uses as a thread and as a resource keeps the
\* kind of its first registration, which is the thread registration, and
\* registering the nodes again leaves the edges as they are.
C22_FirstRegistrationWins ==
    /\ [](pc = "replay" => \A n \in SharedNames : rag.node_types[n] = "thread")
    /\ [][pc = "idle" => rag'.edges = rag.edges]_vars

\* the next node after position i along cycle c, the first after the last
NextOn(c, i) == c[(i % Len(c)) + 1]

\* C23: every entry detect_cycles returns is a closed path of the graph:
\* its nodes are pairwise distinct, each has an edge to the next and the
\* last has an edge to the first; when the thread names and the resource
\* names of the list are disjoint, thread and resource nodes alternate
\* along the entry.
C23_RealCycles ==
    Analysed
        => \A n \in 1..Len(cycles) :
               LET c == cycles[n]
               IN /\ c # <<>>
                  /\ \A i, j \in 1..Len(c) : c[i] = c[j] => i = j
                  /\ \A i \in 1..Len(c) :
                         /\ NextOn(c, i) \in Range(rag.graph[c[i]])
                         /\ \E kind \in {"hold", "request"} :
                                <<c[i], NextOn(c, i), kind>> \in rag.edges
                  /\ SharedNames = {}
                         => \A i \in 1..Len(c) :
                                rag.node_types[c[i]] # rag.node_types[NextOn(c, i)]

\* detect_cycles has returned a cycle through four nodes for a list whose
\* thread names and resource names are disjoint
C23_Witness ==
    /\ Analysed
    /\ SharedNames = {}
    /\ \E n \in 1..Len(cycles) : Len(cycles[n]) = 4

\* the closed paths of the graph: sequences of pairwise distinct nodes, each
\* with an edge to the next and the last with an edge to the first
ClosedPaths ==
    LET nodes == Range(rag.keys)
    IN {c \in UNION {[1..k -> nodes] : k \in 1..Cardinality(nodes)} :
           /\ \A i, j \in 1..Len(c) : c[i] = c[j] => i = j
           /\ \A i \in 1..Len(c) : NextOn(c, i) \in Range(rag.graph[c[i]])}

\* C24: whenever the graph build_rag built has a closed path with at least
\* two thread nodes and at least one resource node, level 1 reports at
\* least one finding, in whatever order the search visits nodes and
\* neighbours.
C24_NoMissedCircularWait ==
    (Analysed /\ \E c \in ClosedPaths : Qualifies(c))
        => Len(FindingsOfLevel(LastReport, 1)) >= 1

\* the 'solution_applied' history entries that name solution sid
AppliedEntries(sid) ==
    {i \in 1..Len(knowledge_base.history) :
        /\ knowledge_base.history[i].event = "solution_applied"
        /\ knowledge_base.history[i].solution_id = sid}

\* C25: for every known solution times_used is the number of
\* 'solution_applied' history entries naming it and times_successful, never
\* above times_used, is the number of those with success true; and a
\* register_solution_applied call for an unknown pattern_id returns False
\* and changes no pattern, no solution, no history entry and not the file.
C25_CountersAgreeWithHistory ==
    /\ [](\A n \in 1..Len(knowledge_base.solutions) :
              LET solution == knowledge_base.solutions[n]
                  applied == AppliedEntries(solution.solution_id)
              IN /\ solution.times_used = Cardinality(applied)
                 /\ solution.times_successful =
                        Cardinality({i \in applied : knowledge_base.history[i].success})
                 /\ solution.times_successful <= solution.times_used)
    /\ [][(/\ Len(kb_result') = Len(kb_result) + 1
            /\ kb_call'.op = "register_solution_applied"
            /\ kb_call'.pattern_id \notin PatternKeys(knowledge_base))
              => /\ kb_result'[Len(kb_result')] = FALSE
                 /\ knowledge_base' = knowledge_base
                 /\ db_file' = db_file]_vars

\* a known solution has been applied with success and without, and the
\* latest call, for an unknown pattern, returned False
C25_Witness ==
    /\ \E n \in 1..Len(knowledge_base.solutions) :
           /\ knowledge_base.solutions[n].times_used = 2
           /\ knowledge_base.solutions[n].times_successful = 1
    /\ kb_call.op = "register_solution_applied"
    /\ kb_call.pattern_id \notin PatternKeys(knowledge_base)
    /\ kb_result[Len(kb_result)] = FALSE

====
